---- MODULE Spec2Model ----
(***************************************************************************)
(* Model of nicolube/1BRC (src/src/main.rs, src/src/hash_table.rs): the    *)
(* partitioning of the mapped file into chunks, the per-chunk record       *)
(* parser, the hash table, the worker threads that scan a chunk and fold   *)
(* their table into the shared table under a mutex, and main's             *)
(* await-and-print.                                                        *)
(*                                                                         *)
(* Bytes are integers; a byte slice is a sequence of bytes.  Rust offsets  *)
(* are 0-based, so byte i of data is data[i + 1].                          *)
(***************************************************************************)
EXTENDS Integers, Sequences, FiniteSets, TLC

\* ------------------------------------------------------------------ bounds
\* Largest number of records of an input file.
MaxRecords == 2
\* Largest value of thread::available_parallelism().
MaxThreads == 3
\* available_parallelism() of a machine with more cores than the smallest
\* files have bytes.
ManyThreads == 10
\* Number of distinct hashes offered to a table, and the most updates one
\* entry takes, when the table is driven on its own.
MaxKeys == 4
\* Most digits of the integer part of a value when values are enumerated.
MaxDigits == 2
\* Longest arena when every placement of newlines is enumerated.
MaxLen == 7
MaxUpdates == 1
\* Bucket count of a new table.  The source uses 1 << 16 (hash_table.rs:15);
\* the model scales it down so that buckets hold several entries and a table
\* can reach its load factor.
InitialSize == 2

\* ------------------------------------------------------- program constants
\* b'\n', b';', b'-', b'0' as used by the parser.
NL == 10
SEMI == 59
MINUS == 45
ZERO == 48
\* "skipped 3 bytes": the fast-path skip of parse_line, for the key and for
\* the value.
KeySkip == 3
ValueSkip == 3
\* The multiplier of the key hash.
HashMul == 31
\* i32::MAX and i32::MIN, the fields of a new Result.
I32Max == 2147483647
I32Min == -I32Max - 1

\* ------------------------------------------------------------------ inputs
\* The ASCII code of a one-character string.
Ch(c) ==
    CASE c = "A" -> 65 [] c = "B" -> 66 [] c = "C" -> 67 [] c = "D" -> 68 [] c = "a" -> 97
      [] c = ";" -> SEMI [] c = "-" -> MINUS [] c = "." -> 46
      [] c = "0" -> ZERO [] c = "1" -> 49 [] c = "2" -> 50 [] c = "3" -> 51
      [] c = "5" -> 53 [] c = "9" -> 57 [] c = "x" -> 120 [] c = "\n" -> NL

Str(s) == [i \in DOMAIN s |-> Ch(s[i])]

\* Keys of the input grammar ([^;\n]+).  AaA and BBA have the same key hash;
\* A is a key shorter than the parser's skip.
Keys ==
    { Str(<<"A", "a", "A">>), Str(<<"B", "B", "A">>),
      Str(<<"C", "C", "C">>), Str(<<"A">>) }

\* Values of the input grammar (-?[0-9]+\.[0-9]).
Values == { Str(<<"1", ".", "0">>), Str(<<"-", "1", "2", ".", "5">>) }

RecordSet == { k \o <<SEMI>> \o v : k \in Keys, v \in Values }

\* The records from the i-th on, each followed by a newline.
RECURSIVE JoinRecords(_, _)
JoinRecords(rs, i) ==
    IF i > Len(rs) THEN <<>> ELSE rs[i] \o <<NL>> \o JoinRecords(rs, i + 1)

\* The files of up to MaxRecords records, the last one with or without its
\* newline.
Files ==
    { IF nl THEN JoinRecords(rs, 1) ELSE SubSeq(JoinRecords(rs, 1), 1, Len(JoinRecords(rs, 1)) - 1) :
        rs \in UNION { [1..n -> RecordSet] : n \in 1..MaxRecords }, nl \in BOOLEAN }

\* ------------------------------------------------------------------ helpers
Min(S) == CHOOSE x \in S : \A y \in S : x <= y

MinOf(a, b) == IF a <= b THEN a ELSE b
MaxOf(a, b) == IF a >= b THEN a ELSE b

\* data[a..b]: the slice, and whether taking it is in bounds (it panics
\* otherwise).
SliceOk(d, a, b) == a <= b /\ b <= Len(d)
Slice(d, a, b) == SubSeq(d, a + 1, b)

\* ---------------------------------------------------------------- Result
\* Result::new: String::from_utf8_lossy keeps ASCII bytes and replaces a byte
\* that is not ASCII by U+FFFD (the inputs of the model are ASCII).
FromUtf8Lossy(name) == [i \in DOMAIN name |-> IF name[i] < 128 THEN name[i] ELSE 65533]

ResultNew(name) ==
    [name |-> FromUtf8Lossy(name), min |-> I32Max, max |-> I32Min, mean |-> 0, count |-> 0]

ResultUpdate(r, value) ==
    [r EXCEPT !.min = MinOf(r.min, value), !.max = MaxOf(r.max, value),
              !.mean = r.mean + value, !.count = r.count + 1]

\* A merge that takes the other's bounds instead of folding them in.
ResultMergeTakesOther(r, other) ==
    [r EXCEPT !.min = other.min, !.max = other.max,
              !.mean = r.mean + other.mean, !.count = r.count + other.count]

ResultMerge(r, other) ==
    [r EXCEPT !.min = MinOf(r.min, other.min), !.max = MaxOf(r.max, other.max),
              !.mean = r.mean + other.mean, !.count = r.count + other.count]

\* Result::to_string: format!("{}={:.1}/{:.1}/{:.1}", name, min, max, mean)
\* with min and max in tenths and mean = mean / count / 10.0 in f64, which is
\* NaN for count = 0 (0.0 / 0.0).  The quotient is kept as the pair it is
\* computed from.
ResultToString(r) ==
    [name |-> r.name, first |-> r.min, second |-> r.max,
     third |-> IF r.count = 0 THEN [nan |-> TRUE, num |-> r.mean, den |-> 0]
               ELSE [nan |-> FALSE, num |-> r.mean, den |-> r.count]]

\* ------------------------------------------------------------- find_next
find_next(d, position, char) ==
    LET hits == { i \in position..(Len(d) - 1) : d[i + 1] = char }
    IN  IF hits = {} THEN position ELSE Min(hits)

\* ------------------------------------------------------------- HashTable
\* A u64 is kept as its four 16-bit limbs, least significant first, so that
\* the arithmetic of the key hash stays exact (and wraps at 2^64).
LimbBase == 2 ^ 16

U64Zero == <<0, 0, 0, 0>>

\* key * mul + add in wrapping u64 arithmetic, for mul and add below 2^8.
U64MulAdd(key, mul, add) ==
    LET p1 == key[1] * mul + add
        p2 == key[2] * mul + p1 \div LimbBase
        p3 == key[3] * mul + p2 \div LimbBase
        p4 == key[4] * mul + p3 \div LimbBase
    IN  <<p1 % LimbBase, p2 % LimbBase, p3 % LimbBase, p4 % LimbBase>>

\* key as usize % m.
U64Mod(key, m) ==
    LET r4 == key[4] % m
        r3 == (r4 * LimbBase + key[3]) % m
        r2 == (r3 * LimbBase + key[2]) % m
    IN  (r2 * LimbBase + key[1]) % m

HashTableNew == [buckets |-> [i \in 1..InitialSize |-> <<>>], size |-> 0]

\* The buckets from the i-th on, one after the other.
RECURSIVE Flatten(_, _)
Flatten(bs, i) == IF i > Len(bs) THEN <<>> ELSE bs[i] \o Flatten(bs, i + 1)

\* key_set: the entries, bucket by bucket, each bucket in insertion order.
key_set(t) == Flatten(t.buckets, 1)

\* A resize that places the entries by the old bucket count.
HashTableResizeOldCount(t) ==
    LET new_size == Len(t.buckets) * 2
        InBucket(j) == LET Here(e) == U64Mod(e.key, Len(t.buckets)) = j
                       IN  SelectSeq(key_set(t), Here)
    IN  [t EXCEPT !.buckets = [j \in 1..new_size |-> InBucket(j - 1)]]

\* resize: twice the buckets; the entries are drained bucket by bucket and
\* pushed to bucket (hash mod new_size); size is left alone.
HashTableResize(t) ==
    LET new_size == Len(t.buckets) * 2
        InBucket(j) == LET Here(e) == U64Mod(e.key, new_size) = j
                       IN  SelectSeq(key_set(t), Here)
    IN  [t EXCEPT !.buckets = [j \in 1..new_size |-> InBucket(j - 1)]]

\* The position in bucket b of the first entry whose hash is key, 0 if none
\* (find compares k.hash() == key.hash(), the u64 alone).
FindInBucket(b, key) ==
    LET hits == { i \in 1..Len(b) : b[i].key = key }
    IN  IF hits = {} THEN 0 ELSE Min(hits)

\* The closures passed as modify: |fu| fu.update(value) in parse_line and
\* |fu| fu.merge(&value) in the worker's merge loop.
UpdateWith(value) == [op |-> "update", arg |-> value]
MergeWith(other) == [op |-> "merge", arg |-> other]

Call(modify, fu) ==
    IF modify.op = "update" THEN ResultUpdate(fu, modify.arg) ELSE ResultMerge(fu, modify.arg)

\* An insert_or_update that resizes only above the threshold.
insert_or_update_above(t0, key, modify, provide) ==
    LET t == IF t0.size > (Len(t0.buckets) * 3) \div 4 THEN HashTableResize(t0) ELSE t0
        index == U64Mod(key, Len(t.buckets)) + 1
        at == FindInBucket(t.buckets[index], key)
    IN  IF at # 0
        THEN [t EXCEPT !.buckets[index][at].value = Call(modify, t.buckets[index][at].value)]
        ELSE [t EXCEPT !.buckets[index] = Append(t.buckets[index], [key |-> key, value |-> provide]),
                       !.size = t.size + 1]

insert_or_update(t0, key, modify, provide) ==
    LET t == IF t0.size >= (Len(t0.buckets) * 3) \div 4 THEN HashTableResize(t0) ELSE t0
        index == U64Mod(key, Len(t.buckets)) + 1
        at == FindInBucket(t.buckets[index], key)
    IN  IF at # 0
        THEN [t EXCEPT !.buckets[index][at].value = Call(modify, t.buckets[index][at].value)]
        ELSE [t EXCEPT !.buckets[index] = Append(t.buckets[index], [key |-> key, value |-> provide]),
                       !.size = t.size + 1]

\* ------------------------------------------------------------------ Chunk
ChunkNew(start, end) ==
    [start |-> start, end |-> end, position |-> start, result |-> HashTableNew]

\* data[i] - b'0' in u8: it underflows for a byte below b'0', which panics
\* in a build with overflow checks and wraps in one without.
SubZero(b) == IF b >= ZERO THEN b - ZERO ELSE b - ZERO + 256

RECURSIVE Digits(_, _, _, _)
Digits(v, i, hi, acc) ==
    IF i >= hi THEN acc ELSE Digits(v, i + 1, hi, acc * 10 + SubZero(v[i + 1]))

\* A parse_value that negates the integer part before the fractional digit
\* is added.
parse_value_negated_integer(v, checks) ==
    LET neg == v[1] = MINUS
        from == IF neg THEN 1 ELSE 0
        int == Digits(v, from, Len(v) - 2, 0)
        read == { i \in from..(Len(v) - 3) : TRUE } \cup { Len(v) - 1 }
    IN  [panic |-> checks /\ \E i \in read : v[i + 1] < ZERO,
         value |-> (IF neg THEN -int ELSE int) * 10 + SubZero(v[Len(v)])]

\* parse_value on the value region v (at least 2 bytes wherever parse_line
\* calls it; the regions of the model are too short for result to leave i32).
parse_value(v, checks) ==
    LET neg == v[1] = MINUS
        from == IF neg THEN 1 ELSE 0
        int == Digits(v, from, Len(v) - 2, 0)
        result == int * 10 + SubZero(v[Len(v)])
        read == { i \in from..(Len(v) - 3) : TRUE } \cup { Len(v) - 1 }
    IN  [panic |-> checks /\ \E i \in read : v[i + 1] < ZERO,
         value |-> IF neg THEN -result ELSE result]

\* "Simple hash function, stolen from java": key = key * 31 + byte.
RECURSIVE KeyHashFrom(_, _, _)
KeyHashFrom(name, i, key) ==
    IF i > Len(name) THEN key
    ELSE KeyHashFrom(name, i + 1, U64MulAdd(key, HashMul, name[i]))

KeyHash(name) == KeyHashFrom(name, 1, U64Zero)

\* parse_line on chunk c of data d: the chunk after the call, whether the
\* call panicked (a slice out of bounds, an overflow under overflow checks),
\* what it returned, and what it took for the key and the value region.
parse_line(c, d, checks) ==
    LET split_pos == find_next(d, c.position + KeySkip, SEMI)
        name_ok == SliceOk(d, c.position, split_pos)
        name == Slice(d, c.position, split_pos)
        position == find_next(d, split_pos + ValueSkip, NL) + 1
        value_ok == SliceOk(d, split_pos + 1, position - 1)
        region == Slice(d, split_pos + 1, position - 1)
        pv == parse_value(region, checks)
        key == KeyHash(name)
    IN  IF ~name_ok \/ ~value_ok \/ pv.panic
        THEN [panic |-> TRUE, chunk |-> c, more |-> FALSE,
              call |-> [start |-> c.position, split_pos |-> split_pos, name |-> <<>>,
                        region |-> <<>>, value |-> 0, position |-> position]]
        ELSE [panic |-> FALSE,
              chunk |-> [c EXCEPT !.position = position,
                                  !.result = insert_or_update(c.result, key, UpdateWith(pv.value), ResultNew(name))],
              more |-> position < c.end,
              call |-> [start |-> c.position, split_pos |-> split_pos, name |-> name,
                        region |-> region, value |-> pv.value, position |-> position]]

\* ------------------------------------------------------------------ state
VARIABLES
    data,             \* the mapped file (mmaped)
    max_threads,      \* thread::available_parallelism()
    overflow_checks,  \* whether the build panics on integer overflow
    pc,               \* where main is
    next_start,       \* the cursor of the partitioning loop
    chunks,           \* the chunks, each moved into its thread when spawned
    threads,          \* one entry per spawned thread: where its closure is
    awaiting,         \* the index of the await loop
    result,           \* the shared table behind the mutex
    lock,             \* the holder of the mutex: 0, "main" or a thread index
    output,           \* what main prints: the formatted entries in order
    joined,           \* history: the threads main has joined
    calls,            \* history: the parse_line calls of each chunk
    merge_log         \* history: <<thread, key>> of every entry folded into result

vars ==
    <<data, max_threads, overflow_checks, pc, next_start, chunks, threads,
      awaiting, result, lock, output, joined, calls, merge_log>>

\* A chunk size of half the share of a thread.
chunk_size_half_share == Len(data) \div (2 * max_threads)

chunk_size == Len(data) \div max_threads

Init ==
    /\ data \in Files
    /\ max_threads \in 1..MaxThreads
    /\ overflow_checks \in BOOLEAN
    /\ pc = "partition"
    /\ next_start = 0
    /\ chunks = <<>>
    /\ threads = <<>>
    /\ awaiting = 1
    /\ result = HashTableNew
    /\ lock = 0
    /\ output = <<>>
    /\ joined = {}
    /\ calls = <<>>
    /\ merge_log = <<>>

\* ------------------------------------------------------------- main thread
\* next_end without the clip to mmaped.len().
NextEndUnclipped == find_next(data, next_start + chunk_size, NL)

\* One iteration of "while next_start < mmaped.len()".
NextEnd ==
    LET next_end == find_next(data, next_start + chunk_size, NL)
    IN  IF next_end > Len(data) THEN Len(data) ELSE next_end

Partition ==
    /\ pc = "partition"
    /\ next_start < Len(data)
    /\ chunks' = Append(chunks, ChunkNew(next_start, NextEnd))
    /\ calls' = Append(calls, <<>>)
    /\ next_start' = NextEnd + 1
    /\ UNCHANGED <<joined, data, max_threads, overflow_checks, pc, threads, awaiting,
                   result, lock, output, merge_log>>

PartitionEnd ==
    /\ pc = "partition"
    /\ ~(next_start < Len(data))
    /\ pc' = "spawn"
    /\ UNCHANGED <<joined, data, max_threads, overflow_checks, next_start, chunks, threads,
                   awaiting, result, lock, output, calls, merge_log>>

\* One iteration of "for mut chunk in chunks": thread::spawn.
Spawn ==
    /\ pc = "spawn"
    /\ Len(threads) < Len(chunks)
    /\ threads' = Append(threads, [state |-> "scan", iter |-> 1])
    /\ UNCHANGED <<joined, data, max_threads, overflow_checks, pc, next_start, chunks,
                   awaiting, result, lock, output, calls, merge_log>>

SpawnEnd ==
    /\ pc = "spawn"
    /\ Len(threads) = Len(chunks)
    /\ pc' = "await"
    /\ UNCHANGED <<joined, data, max_threads, overflow_checks, next_start, chunks, threads,
                   awaiting, result, lock, output, calls, merge_log>>

\* The thread has ended: its closure has returned or panicked (its locals,
\* the MutexGuard among them, are dropped by then).
has_ended(t) == threads[t].state \in {"finished", "panicked"}

\* A flag raised when the scan loop is over, before the merge.
is_finished_after_scan(t) == threads[t].state # "scan"

\* JoinHandle::is_finished as std gives it: true once the thread has ended.
is_finished(t) == has_ended(t)

\* "if !thread.is_finished()": a finished thread is not joined.
AwaitTest ==
    /\ pc = "await"
    /\ awaiting <= Len(threads)
    /\ IF is_finished(awaiting)
       THEN awaiting' = awaiting + 1 /\ pc' = pc
       ELSE awaiting' = awaiting /\ pc' = "join"
    /\ UNCHANGED <<joined, data, max_threads, overflow_checks, next_start, chunks, threads,
                   result, lock, output, calls, merge_log>>

\* thread.join().unwrap(): returns once the thread has ended, and panics if
\* the thread panicked.
Join ==
    /\ pc = "join"
    /\ has_ended(awaiting)
    /\ joined' = joined \cup {awaiting}
    /\ IF threads[awaiting].state = "panicked"
       THEN awaiting' = awaiting /\ pc' = "panicked"
       ELSE awaiting' = awaiting + 1 /\ pc' = "await"
    /\ UNCHANGED <<data, max_threads, overflow_checks, next_start, chunks, threads,
                   result, lock, output, calls, merge_log>>

\* result.lock().unwrap() after the await loop.  No thread panics while it
\* holds the guard, so the mutex is never poisoned.
LockMain ==
    /\ pc = "await"
    /\ awaiting > Len(threads)
    /\ lock = 0
    /\ lock' = "main"
    /\ pc' = "print"
    /\ UNCHANGED <<joined, data, max_threads, overflow_checks, next_start, chunks, threads,
                   awaiting, result, output, calls, merge_log>>

MapToString(es) == [i \in DOMAIN es |-> ResultToString(es[i].value)]

\* key_set().map(to_string).collect(), println!, and the end of main.
PrintResult ==
    /\ pc = "print"
    /\ output' = MapToString(key_set(result))
    /\ pc' = "done"
    /\ lock' = 0
    /\ UNCHANGED <<joined, data, max_threads, overflow_checks, next_start, chunks, threads,
                   awaiting, result, calls, merge_log>>

\* ---------------------------------------------------------- worker threads
\* One iteration of "while chunk.parse_line() {}".
ParseLine(t) ==
    /\ t \in DOMAIN threads
    /\ threads[t].state = "scan"
    /\ LET r == parse_line(chunks[t], data, overflow_checks)
       IN  /\ chunks' = [chunks EXCEPT ![t] = r.chunk]
           /\ calls' = [calls EXCEPT ![t] = Append(@, r.call @@ [panic |-> r.panic])]
           /\ threads' = [threads EXCEPT ![t].state =
                             IF r.panic THEN "panicked" ELSE IF r.more THEN "scan" ELSE "lock"]
    /\ UNCHANGED <<joined, data, max_threads, overflow_checks, pc, next_start, awaiting,
                   result, lock, output, merge_log>>

\* result.lock().unwrap() in the closure.
LockWorker(t) ==
    /\ t \in DOMAIN threads
    /\ threads[t].state = "lock"
    /\ lock = 0
    /\ lock' = t
    /\ threads' = [threads EXCEPT ![t].state = "merge"]
    /\ UNCHANGED <<joined, data, max_threads, overflow_checks, pc, next_start, chunks,
                   awaiting, result, output, calls, merge_log>>

\* One iteration of "for (key, value) in chunk.result.key_set()".
MergeEntry(t) ==
    /\ t \in DOMAIN threads
    /\ threads[t].state = "merge"
    /\ threads[t].iter <= Len(key_set(chunks[t].result))
    /\ LET e == key_set(chunks[t].result)[threads[t].iter]
       IN  /\ result' = insert_or_update(result, e.key, MergeWith(e.value), e.value)
           /\ merge_log' = Append(merge_log, <<t, e.key>>)
    /\ threads' = [threads EXCEPT ![t].iter = @ + 1]
    /\ UNCHANGED <<joined, data, max_threads, overflow_checks, pc, next_start, chunks,
                   awaiting, lock, output, calls>>

\* The end of the closure: the guard is dropped and the thread ends.
Finish(t) ==
    /\ t \in DOMAIN threads
    /\ threads[t].state = "merge"
    /\ threads[t].iter > Len(key_set(chunks[t].result))
    /\ lock' = 0
    /\ threads' = [threads EXCEPT ![t].state = "finished"]
    /\ UNCHANGED <<joined, data, max_threads, overflow_checks, pc, next_start, chunks,
                   awaiting, result, output, calls, merge_log>>

Next ==
    \/ Partition
    \/ PartitionEnd
    \/ Spawn
    \/ SpawnEnd
    \/ AwaitTest
    \/ Join
    \/ LockMain
    \/ PrintResult
    \/ \E t \in DOMAIN threads : ParseLine(t)
    \/ \E t \in DOMAIN threads : LockWorker(t)
    \/ \E t \in DOMAIN threads : MergeEntry(t)
    \/ \E t \in DOMAIN threads : Finish(t)

Spec == Init /\ [][Next]_vars

\* ------------------------------------------------- further input classes
\* The program started on a file from set fs with one of the thread counts
\* ps; everything else as in Init.
InitOn(fs, ps) ==
    /\ data \in fs
    /\ max_threads \in ps
    /\ overflow_checks \in BOOLEAN
    /\ pc = "partition"
    /\ next_start = 0
    /\ chunks = <<>>
    /\ threads = <<>>
    /\ awaiting = 1
    /\ result = HashTableNew
    /\ lock = 0
    /\ output = <<>>
    /\ joined = {}
    /\ calls = <<>>
    /\ merge_log = <<>>

\* Files outside the input grammar and files shorter than the thread count:
\* a value with a letter for a digit (alone and after a good record), a
\* record without ';', a file that starts with an empty line, a file of one
\* record without its newline.
EdgeFiles ==
    { Str(<<"C", "C", "C", ";", "x", ".", "0", "\n">>),
      Str(<<"C", "C", "C", ";", "1", ".", "0", "\n", "C", "C", "C", ";", "x", ".", "0", "\n">>),
      Str(<<"C", "C", "C", "1", ".", "0", "\n">>),
      Str(<<"\n", "C", "C", "C", ";", "1", ".", "0", "\n">>),
      Str(<<"C", "C", "C", ";", "1", ".", "0">>) }

InitEdge == InitOn(EdgeFiles, {1, ManyThreads})

SpecEdge == InitEdge /\ [][Next]_vars

\* Files of the input grammar with one record more than those of Files, over
\* two keys of which the later in byte order (DDD) has the lower bucket, so
\* that a key occurs three times and tables hold entries out of key order.
LongRecordSet ==
    { Str(<<"C", "C", "C", ";", "1", ".", "0">>), Str(<<"C", "C", "C", ";", "-", "1", "2", ".", "5">>),
      Str(<<"D", "D", "D", ";", "1", ".", "0">>) }

LongFiles == { JoinRecords(rs, 1) : rs \in [1..(MaxRecords + 1) -> LongRecordSet] }

InitLong == InitOn(LongFiles, 1..MaxThreads)

SpecLong == InitLong /\ [][Next]_vars

\* One-record files whose value runs over the decimals -?[0-9]+\.[0-9] with
\* up to MaxDigits integer digits out of 0, 1, 3, 9, read by one thread.
DigitSeqs == UNION { [1..n -> { Ch("0"), Ch("1"), Ch("3"), Ch("9") }] : n \in 1..MaxDigits }

ValueRegions ==
    { sign \o int \o <<Ch(".")>> \o frac :
        sign \in { <<>>, <<MINUS>> }, int \in DigitSeqs, frac \in [1..1 -> { Ch("0"), Ch("1"), Ch("3"), Ch("9") }] }

ValueFiles == { Str(<<"C", "C", "C", ";">>) \o v \o <<NL>> : v \in ValueRegions }

InitValue == InitOn(ValueFiles, {1})

SpecValue == InitValue /\ [][Next]_vars

\* Main's partitioning and spawning loops on every arena of up to MaxLen
\* bytes over newline and one other byte, for thread counts below and above
\* the arena length.  The workers are left unscheduled: they touch neither
\* chunks' bounds nor the number of threads.  Main is never blocked in these
\* loops, so it keeps taking steps.
Arenas == UNION { [1..n -> { NL, Ch("C") }] : n \in 0..MaxLen }

InitPartition == InitOn(Arenas, (1..MaxThreads) \cup {ManyThreads})

NextPartition == Partition \/ PartitionEnd \/ Spawn \/ SpawnEnd

SpecPartition == InitPartition /\ [][NextPartition]_vars /\ WF_vars(NextPartition)

\* ------------------------------------------------- the table on its own
\* A HashTable<u64, Result> from HashTable::new() (held in result) that
\* takes any sequence of insert_or_update calls of the form parse_line makes
\* them: a hash, |fu| fu.update(value), || Result::new(name).
\* The hashes are squares, which share buckets at every bucket count, with
\* a top limb that the reduction has to carry down.
TableKeys == { <<k * k, 0, 0, k % 2>> : k \in 1..MaxKeys }

InitTable ==
    /\ data = <<>>
    /\ max_threads = 1
    /\ overflow_checks = FALSE
    /\ pc = "table"
    /\ next_start = 0
    /\ chunks = <<>>
    /\ threads = <<>>
    /\ awaiting = 1
    /\ result = HashTableNew
    /\ lock = 0
    /\ output = <<>>
    /\ joined = {}
    /\ calls = <<>>
    /\ merge_log = <<>>

TableCall ==
    /\ pc = "table"
    /\ \E key \in TableKeys, value \in {10} :
           /\ \A i \in DOMAIN key_set(result) :
                  key_set(result)[i].key = key => key_set(result)[i].value.count < MaxUpdates
           /\ result' = insert_or_update(result, key, UpdateWith(value), ResultNew(<<>>))
    /\ UNCHANGED <<joined, data, max_threads, overflow_checks, pc, next_start, chunks,
                   threads, awaiting, lock, output, calls, merge_log>>

SpecTable == InitTable /\ [][TableCall]_vars

\* =================================================================== claims
\* The input grammar <key>;<value>\n, read off the file without the parser:
\* the record that starts at offset p ends at the first newline at or after
\* p (or at end of file), its key ends at its first ';'.
Panicked == { t \in DOMAIN threads : threads[t].state = "panicked" }

AllEnded == pc \notin {"partition", "spawn"} /\ \A t \in DOMAIN threads : has_ended(t)

FirstAt(p, char) ==
    LET hits == { i \in p..(Len(data) - 1) : data[i + 1] = char }
    IN  IF hits = {} THEN Len(data) ELSE Min(hits)

RecordStarts == { p \in 0..(Len(data) - 1) : p = 0 \/ data[p] = NL }

RefKey(p) == Slice(data, p, FirstAt(p, SEMI))

RefRegion(p) == Slice(data, FirstAt(p, SEMI) + 1, FirstAt(p, NL))

\* The decimal -?[0-9]+\.[0-9] scaled by 10: its digits read as one integer.
RECURSIVE RefDigits(_, _, _)
RefDigits(v, i, acc) ==
    IF i > Len(v) THEN acc
    ELSE RefDigits(v, i + 1, IF v[i] >= ZERO /\ v[i] <= ZERO + 9
                             THEN acc * 10 + (v[i] - ZERO) ELSE acc)

RefValue(p) ==
    IF RefRegion(p)[1] = MINUS THEN -RefDigits(RefRegion(p), 1, 0) ELSE RefDigits(RefRegion(p), 1, 0)

RefKeys == { RefKey(p) : p \in RecordStarts }

RefCount(k) == Cardinality({ p \in RecordStarts : RefKey(p) = k })

RECURSIVE SumOver(_, _)
SumOver(S, k) ==
    IF S = {} THEN 0
    ELSE LET p == Min(S)
         IN  (IF RefKey(p) = k THEN RefValue(p) ELSE 0) + SumOver(S \ {p}, k)

RefSum(k) == SumOver(RecordStarts, k)

\* The inputs the parser's skips are written for: every key has at least
\* KeySkip bytes and the last record ends with a newline.
LongKeys == \A p \in RecordStarts : Len(RefKey(p)) >= KeySkip

Terminated == data[Len(data)] = NL

\* The entries of table t stored under hash key.
EntriesOf(t, key) == LET Here(e) == e.key = key IN SelectSeq(key_set(t), Here)

\* How often x occurs in sequence s.
Occurrences(s, x) == Cardinality({ i \in DOMAIN s : s[i] = x })

\* C1: when main has printed, the shared table holds for every key of the
\* input one entry whose count is the number of records with that key and
\* whose sum (the field mean) is the total of their scaled values.  Stated
\* for inputs of newline-terminated records with keys of at least KeySkip
\* bytes, where the parser splits every record as the grammar does.
C1_NoObservationLost ==
    (pc = "done" /\ LongKeys /\ Terminated) =>
        \A k \in RefKeys :
            LET es == EntriesOf(result, KeyHash(k))
            IN  /\ Len(es) = 1
                /\ es[1].value.count = RefCount(k)
                /\ es[1].value.mean = RefSum(k)

\* C2: with no worker failing, every entry of every worker's table is folded
\* into the shared table exactly once, the folds of one worker are never
\* interleaved with those of another (a merging worker holds the lock, and
\* the log of folds is grouped by worker), and main holds the lock and reads
\* the table only when every worker has finished its merge, whether main
\* joined the worker or skipped the join.
C2_MergedOnceExclusive ==
    /\ \A t \in DOMAIN threads : threads[t].state = "merge" => lock = t
    /\ \A i, j, k \in DOMAIN merge_log :
           (i < j /\ j < k /\ merge_log[i][1] = merge_log[k][1]) => merge_log[j][1] = merge_log[i][1]
    /\ (pc \in {"print", "done"} /\ Panicked = {}) =>
           /\ Len(threads) = Len(chunks)
           /\ lock = (IF pc = "print" THEN "main" ELSE 0)
           /\ \A t \in DOMAIN threads :
                  /\ threads[t].state = "finished"
                  /\ \A i \in DOMAIN key_set(chunks[t].result) :
                         Occurrences(merge_log, <<t, key_set(chunks[t].result)[i].key>>) = 1
           /\ \A i \in DOMAIN merge_log :
                  EntriesOf(chunks[merge_log[i][1]].result, merge_log[i][2]) # <<>>

\* Main prints after two workers scanned well-parsed chunks and merged, one
\* joined and one whose join was skipped because is_finished was true.
C2_Witness ==
    /\ pc = "done"
    /\ LongKeys /\ Terminated
    /\ Panicked = {}
    /\ Len(threads) >= 2
    /\ joined # {}
    /\ (DOMAIN threads) \ joined # {}
    /\ \E i, j \in DOMAIN merge_log : merge_log[i][1] # merge_log[j][1]

\* The entries of table t whose Result carries the name of key bytes name.
Named(t, name) == LET Here(e) == e.value.name = FromUtf8Lossy(name) IN SelectSeq(key_set(t), Here)

\* C3: a parse_line call on a key that has no entry in the chunk's table adds
\* one entry with count = 1 and min = max = sum = the observed value; a call
\* on a key that has an entry folds the value into it and adds no entry.
\* Stated for newline-terminated records with keys of at least KeySkip bytes.
C3_UpsertStep(t) ==
    LET c == calls'[t][Len(calls'[t])]
        before == Named(chunks[t].result, c.name)
        after == Named(chunks'[t].result, c.name)
    IN  (Len(calls'[t]) = Len(calls[t]) + 1 /\ ~c.panic /\ LongKeys /\ Terminated) =>
            IF before = <<>>
            THEN /\ Len(key_set(chunks'[t].result)) = Len(key_set(chunks[t].result)) + 1
                 /\ Len(after) = 1
                 /\ after[1].value.count = 1
                 /\ after[1].value.min = c.value
                 /\ after[1].value.max = c.value
                 /\ after[1].value.mean = c.value
            ELSE /\ Len(key_set(chunks'[t].result)) = Len(key_set(chunks[t].result))
                 /\ Len(after) = 1
                 /\ after[1].value = ResultUpdate(before[1].value, c.value)

C3_UpsertOneObservation == [][\A t \in DOMAIN calls : C3_UpsertStep(t)]_vars

\* C4: every key a worker has observed has an entry of its own, under its own
\* name, in the worker's table, and every entry a worker has folded into the
\* shared table has an entry under its name there: two keys with one hash are
\* never held as one entry.  Stated for newline-terminated records with keys
\* of at least KeySkip bytes.
C4_CollisionSafety ==
    (LongKeys /\ Terminated) =>
    /\ \A t \in DOMAIN calls : \A i \in DOMAIN calls[t] :
           ~calls[t][i].panic => Named(chunks[t].result, calls[t][i].name) # <<>>
    /\ \A i \in DOMAIN merge_log :
           LET es == EntriesOf(chunks[merge_log[i][1]].result, merge_log[i][2])
           IN  \E n \in DOMAIN key_set(result) :
                   key_set(result)[n].value.name = es[1].value.name

\* C5: once the partitioning loop has ended, the chunks start at 0, are in
\* increasing order, each starts one byte after the end of the one before,
\* that skipped byte is a newline, every chunk starts at 0 or right after a
\* newline, and the last chunk ends at end of file or at the final newline.
\* Stated for keys of at least KeySkip bytes.
C5_PartitionCoverage ==
    (pc # "partition" /\ chunks # <<>> /\ LongKeys) =>
        /\ chunks[1].start = 0
        /\ \A i \in DOMAIN chunks :
               /\ chunks[i].start <= chunks[i].end
               /\ chunks[i].end <= Len(data)
               /\ chunks[i].start = 0 \/ data[chunks[i].start] = NL
               /\ i < Len(chunks) =>
                      /\ chunks[i + 1].start = chunks[i].end + 1
                      /\ data[chunks[i].end + 1] = NL
        /\ LET last == chunks[Len(chunks)].end
           IN  last = Len(data) \/ (last = Len(data) - 1 /\ data[last + 1] = NL)

\* One pass over the whole file with a single chunk: whether it panicked,
\* and its table.
RECURSIVE ScanAll(_)
ScanAll(c) ==
    LET r == parse_line(c, data, overflow_checks)
    IN  IF r.panic THEN [panic |-> TRUE, result |-> c.result]
        ELSE IF r.more THEN ScanAll(r.chunk)
        ELSE [panic |-> FALSE, result |-> r.chunk.result]

OnePass == ScanAll(ChunkNew(0, Len(data)))

Aggregates(t) ==
    { [key |-> key_set(t)[n].key, min |-> key_set(t)[n].value.min, max |-> key_set(t)[n].value.max,
       sum |-> key_set(t)[n].value.mean, count |-> key_set(t)[n].value.count] :
        n \in DOMAIN key_set(t) }

\* C6: when main has printed and no scan failed, the {min, max, sum, count}
\* of every key in the shared table are those of one pass over the whole
\* file with a single table, whatever the partitioning and the merge order.
\* Stated for newline-terminated records with keys of at least KeySkip bytes.
C6_MergeEqualsOnePass ==
    (pc = "done" /\ LongKeys /\ Terminated /\ Panicked = {} /\ ~OnePass.panic) =>
        Aggregates(result) = Aggregates(OnePass.result)

\* C7: every entry a worker has folded into the shared table and every entry
\* main has formatted has count >= 1, so that its mean is defined.  Stated
\* for newline-terminated records with keys of at least KeySkip bytes.
C7_NoEmptyAggregateExposed ==
    (LongKeys /\ Terminated) =>
    /\ \A t \in DOMAIN threads : \A i \in 1..(threads[t].iter - 1) :
           key_set(chunks[t].result)[i].value.count >= 1
    /\ \A i \in DOMAIN output : ~output[i].third.nan

\* C8: if a worker has panicked during its scan, main does not print a
\* result.  Stated for keys of at least KeySkip bytes.
C8_FailurePropagates == (pc = "done" /\ LongKeys) => Panicked = {}

\* C9: a parse_line call at the start of a newline-terminated record takes
\* the bytes up to the record's first ';' as the key and the bytes between
\* that ';' and the record's newline as the value region, and leaves the
\* cursor one byte after the newline, for every key length >= 1.
C9_ParseHonoursGrammar ==
    \A t \in DOMAIN calls : \A i \in DOMAIN calls[t] :
        LET c == calls[t][i]
        IN  (c.start \in RecordStarts /\ FirstAt(c.start, NL) < Len(data)) =>
                /\ ~c.panic
                /\ c.name = RefKey(c.start)
                /\ c.region = RefRegion(c.start)
                /\ c.position = FirstAt(c.start, NL) + 1

LastStart == CHOOSE p \in RecordStarts : \A q \in RecordStarts : q <= p

\* C10: for a file whose last record has no newline, once all workers have
\* ended none has panicked, and exactly one parse_line call started at the
\* last record, with everything after its ';' as value region and the
\* record's scaled value as value.  Stated for keys of at least KeySkip bytes.
C10_UnterminatedLastRecord ==
    (AllEnded /\ LongKeys /\ ~Terminated) =>
        /\ Panicked = {}
        /\ Cardinality({ <<t, i>> \in (DOMAIN calls) \X (1..Len(data)) :
                             /\ i \in DOMAIN calls[t]
                             /\ calls[t][i].start = LastStart }) = 1
        /\ \A t \in DOMAIN calls : \A i \in DOMAIN calls[t] :
               calls[t][i].start = LastStart =>
                   /\ calls[t][i].region = RefRegion(LastStart)
                   /\ calls[t][i].value = RefValue(LastStart)

IsDigit(b) == b >= ZERO /\ b <= ZERO + 9

\* v has the form -?[0-9]+\.[0-9].
WellFormedRegion(v) ==
    LET from == IF v # <<>> /\ v[1] = MINUS THEN 2 ELSE 1
    IN  /\ Len(v) >= from + 2
        /\ v[Len(v)  - 1] = 46
        /\ IsDigit(v[Len(v)])
        /\ \A i \in from..(Len(v) - 2) : IsDigit(v[i])

\* The record that starts at p has no ';' before its newline, or its value
\* region is not a decimal of the grammar.
Malformed(p) == FirstAt(p, SEMI) >= FirstAt(p, NL) \/ ~WellFormedRegion(RefRegion(p))

\* C11: a parse_line call at the start of a newline-terminated record that
\* has no ';' or has a byte that is not a digit where the grammar wants one
\* fails (the worker panics and scans no further), and no entry of the
\* worker's table is created or changed from that record.
C11_MalformedFailsFast ==
    \A t \in DOMAIN calls : \A i \in DOMAIN calls[t] :
        LET c == calls[t][i]
        IN  (c.start \in RecordStarts /\ FirstAt(c.start, NL) < Len(data) /\ Malformed(c.start)) =>
                /\ c.panic
                /\ threads[t].state = "panicked"
                /\ i = Len(calls[t])

\* The tables of the state: the shared table and the table of every chunk.
Tables == {result} \cup { chunks[t].result : t \in DOMAIN chunks }

\* The number of entries of table t equal to e.
CopiesIn(t, e) == Cardinality({ i \in DOMAIN key_set(t) : key_set(t)[i] = e })

\* The threshold of insert_or_update: floor(3 * bucket count / 4).
Threshold(t) == (3 * Len(t.buckets)) \div 4

\* C12: for every table that has reached the load at which
\* insert_or_update resizes it, resize gives twice the buckets, the same
\* size, every entry as often as before (and no other entry), and every
\* entry in bucket (hash mod the new bucket count).
C12_ResizePreserves ==
    \A t \in Tables :
        t.size >= Threshold(t) =>
            LET r == HashTableResize(t)
            IN  /\ Len(r.buckets) = 2 * Len(t.buckets)
                /\ r.size = t.size
                /\ Len(key_set(r)) = Len(key_set(t))
                /\ \A i \in DOMAIN key_set(t) : CopiesIn(r, key_set(t)[i]) = CopiesIn(t, key_set(t)[i])
                /\ \A i \in DOMAIN key_set(r) : CopiesIn(t, key_set(r)[i]) = CopiesIn(r, key_set(r)[i])
                /\ \A j \in DOMAIN r.buckets : \A n \in DOMAIN r.buckets[j] :
                       U64Mod(r.buckets[j][n].key, Len(r.buckets)) = j - 1

\* A table that has been resized and is due for its next resize with
\* entries in more than one bucket.
C12_Witness ==
    /\ Len(result.buckets) > InitialSize
    /\ result.size >= Threshold(result)
    /\ result.size >= 3
    /\ Cardinality({ j \in DOMAIN result.buckets : result.buckets[j] # <<>> }) >= 2

\* a is before b in byte-lexicographic order.
LexLess(a, b) ==
    \E n \in 0..Len(a) :
        /\ n <= Len(b)
        /\ \A i \in 1..n : a[i] = b[i]
        /\ IF n = Len(a) THEN n < Len(b) ELSE n < Len(b) /\ a[n + 1] < b[n + 1]

C14_OutputFieldOrder ==
    pc = "done" =>
        \A i \in DOMAIN output :
            LET e == key_set(result)[i].value
            IN  e.count > 0 =>
                    /\ output[i].first = e.min
                    /\ output[i].second * e.count = e.mean
                    /\ ~output[i].third.nan
                    /\ output[i].third.num = e.max * output[i].third.den

\* C15: in every table of a worker and in the shared table, every entry
\* with count > 0 has min <= max and count * min <= sum <= count * max (sum
\* is the field mean), after every update and every merge, a merge with an
\* entry of count 0 included.
C15_AggregateOrdering ==
    \A t \in Tables : \A i \in DOMAIN key_set(t) :
        LET e == key_set(t)[i].value
        IN  e.count > 0 =>
                /\ e.min <= e.max
                /\ e.count * e.min <= e.mean
                /\ e.mean <= e.count * e.max

\* A worker has folded an entry of count 0 into the shared table, and the
\* shared entry of that key, built by updates in another worker, has
\* count > 0.
C15_Witness ==
    \E i \in DOMAIN merge_log :
        /\ EntriesOf(chunks[merge_log[i][1]].result, merge_log[i][2])[1].value.count = 0
        /\ EntriesOf(result, merge_log[i][2])[1].value.count > 0
        /\ i > 1

\* The decimal v = -?[0-9]+\.[0-9] in tenths: (integer part) * 10 +
\* fractional digit, negated when v starts with '-'.
Tenths(v) == IF v[1] = MINUS THEN -RefDigits(v, 1, 0) ELSE RefDigits(v, 1, 0)

C17_PartitionTerminates ==
    /\ <>(pc # "partition")
    /\ [](\A i \in DOMAIN chunks :
             0 <= chunks[i].start /\ chunks[i].start <= chunks[i].end /\ chunks[i].end <= Len(data))
    /\ []((Len(data) = 0 /\ pc # "partition") => chunks = <<>>)

\* The loop has ended on an arena shorter than the thread count with fewer
\* than max_threads - 1 newlines and no newline at its end, cut into
\* several chunks.
C17_Witness ==
    /\ pc # "partition"
    /\ Len(data) < max_threads
    /\ Cardinality({ i \in DOMAIN data : data[i] = NL }) < max_threads - 1
    /\ Len(chunks) >= 2
    /\ data[Len(data)] # NL

\* C18: a worker whose chunk is empty (start = end) makes no parse_line
\* call, so it takes no key or value from outside its chunk, its table stays
\* empty, and it folds nothing into the shared table.
C18_EmptyPartitionInert ==
    \A t \in DOMAIN chunks :
        chunks[t].start = chunks[t].end =>
            /\ calls[t] = <<>>
            /\ key_set(chunks[t].result) = <<>>
            /\ \A i \in DOMAIN merge_log : merge_log[i][1] # t

\* size is the number of stored entries, every entry is in bucket (hash mod
\* bucket count), no two entries have the same hash, and size is at most
\* the threshold.
WellFormedTable(t) ==
    LET ks == key_set(t)
    IN  /\ t.size = Len(ks)
        /\ \A j \in DOMAIN t.buckets : \A n \in DOMAIN t.buckets[j] :
               U64Mod(t.buckets[j][n].key, Len(t.buckets)) = j - 1
        /\ \A i, j \in DOMAIN ks : ks[i].key = ks[j].key => i = j
        /\ t.size <= Threshold(t)

\* From table a to table b the bucket count changes only by a resize that
\* a's size called for.
ResizeOnlyWhenDue(a, b) ==
    Len(b.buckets) # Len(a.buckets) =>
        a.size >= Threshold(a) /\ Len(b.buckets) = 2 * Len(a.buckets)

\* C19: a new table and the table after every insert_or_update call has
\* size equal to the number of stored entries, every entry in bucket (hash
\* mod bucket count), no hash stored twice and size <= floor(3 * bucket
\* count / 4); and a call changes the bucket count only by doubling it when
\* it found size >= floor(3 * bucket count / 4).
C19_TableStructure ==
    /\ \A t \in Tables : WellFormedTable(t)
    /\ [][/\ \A t \in Tables' : WellFormedTable(t)
          /\ ResizeOnlyWhenDue(result, result')
          /\ \A t \in DOMAIN chunks :
                 t \in DOMAIN chunks' => ResizeOnlyWhenDue(chunks[t].result, chunks'[t].result)]_vars

\* A table after two resizes with a bucket that holds two entries, one of
\* its entries updated.
C19_Witness ==
    /\ Len(result.buckets) = 4 * InitialSize
    /\ \E j \in DOMAIN result.buckets : Len(result.buckets[j]) >= 2
    /\ \E i \in DOMAIN key_set(result) : key_set(result)[i].value.count > 0

\* C20: for every arena, thread count and placement of newlines the
\* partitioning loop makes at most max_threads chunks, and main spawns one
\* thread per chunk, so at most max_threads threads.
C20_BoundedParallelism ==
    /\ Len(chunks) <= max_threads
    /\ Len(threads) <= Len(chunks)
    /\ pc \notin {"partition", "spawn"} => Len(threads) = Len(chunks)

\* Main has spawned as many threads as available_parallelism() allows, on
\* an arena cut at newlines that are not one chunk_size apart.
C20_Witness ==
    /\ pc = "await"
    /\ max_threads >= 2
    /\ Len(threads) = max_threads
    /\ \E i, j \in DOMAIN chunks :
           chunks[i].end - chunks[i].start # chunks[j].end - chunks[j].start

====
